---- MODULE Spec2Model ----
(***************************************************************************)
(* A model of typescope (src/typescope/tree.py, src/typescope/__main__.py). *)
(*                                                                         *)
(*   Spec       the provider cache kept by DiskCacheRepoManager            *)
(*   SpecRepo   RepoInfo.get_src_info behind functools.lru_cache, called   *)
(*              from worker threads (CodeView.watch_active_file)           *)
(*   SpecIndex  the construction of one file's NodeInfo graph and the      *)
(*              queries on it                                              *)
(*   SpecView   CodeView: background construction and mouse events         *)
(*   SpecNames  the fqn of the NodeInfo and the name index of one file     *)
(*   SpecGet    get_src_info, one caller, with files that do not parse     *)
(*   SpecRoots  managers for two repository roots over the one store       *)
(*   SpecText   SourceFileInfo.code_at on the text of one file             *)
(*   SpecTypes  the inferred type of one NodeInfo: InferredTypeNode        *)
(*   SpecArgs   get_src_info called with a str or a Path, absolute or not  *)
(*                                                                         *)
(* Each specification leaves the variables of the others untouched.        *)
(***************************************************************************)
EXTENDS Integers, Sequences, FiniteSets, TLC

VARIABLES
    files,       \* path -> bytes of the tracked file on disk
    epoch,       \* number of byte changes made to tracked files so far
    disk,        \* the diskcache store ".typescope_cache": key -> entry
    md5_files,   \* history: <<files, epoch>> as they were when "md5" was stored
    mgr,         \* TRUE once a DiskCacheRepoManager has been constructed
    op,          \* the operation that made the last step
    err,         \* the exception the last operation raised, "none" if none
    failed,      \* the provider whose gen_cache raised it, "none" if none
    ret,         \* what the last operation returned, if get_cache_for_path
    dirty_seen,  \* what the last operation's read of dirty gave, if it read it
    calls,       \* the providers whose gen_cache the last operation invoked
    memo,        \* lru_cache of get_src_info: path argument -> SourceFileInfo
    pc,          \* per worker thread: "idle", "building" or "done"
    treq,        \* per worker thread: the path it was called with
    tparsed,     \* per worker thread: the file contents it parsed
    tret,        \* per worker thread: the SourceFileInfo it returned
    thit,        \* per worker thread: TRUE when the lru_cache answered
    serial,      \* number of SourceFileInfo objects constructed so far
    parse,       \* the metadata maps of one parsed file
    stage,       \* "parsed", "built" or "queried"
    infos,       \* nodes_to_info: syntax node -> NodeInfo
    tree,        \* the IntervalTree: set of (begin, end, data) intervals
    q,           \* the result of the last query on the built index
    active,      \* CodeView._rel_file: the selected file, "none" before any
    code_info,   \* CodeView._code_info: None or a SourceFileInfo
    wpc,         \* per background task: "free", "queued", "building", "returned"
    wpath,       \* per background task: the file it was started for
    wg,          \* per background task: the graph get_src_info has in its locals
    wret,        \* per background task: what get_src_info returned to it
    ui,          \* the last mouse event handled and its outcome
    cands,       \* meta_fully_qualified_names: node -> set of QualifiedName
    retained,    \* the nodes whose group has start < end
    fqn,         \* node -> the fqn of its NodeInfo, as the last build set it
    nstage,      \* "parsed" before the first build of the file, then "built"
    names,       \* SourceFileInfo.qualified_names_to_node_infos
    nq,          \* the last occurences_of_name call and its outcome
    broken,      \* the tracked files whose text is not valid Python
    parse_errors, \* history: the paths for which get_src_info raised a parse error
    live,        \* the repository roots that have a manager in this process
    caller,       \* the root of the manager that made the last operation
    file_code,   \* SourceFileInfo.code: the text of the file
    _lines,      \* SourceFileInfo._lines
    tq,          \* the last code_at call and its outcome
    type_info,   \* meta_inferred_types.get(node): NoType or a str
    empty_range, \* TRUE when the node's range has start = end
    inferred_type, \* NodeInfo.inferred_type as get_src_info set it
    indexed,     \* TRUE when the NodeInfo is in an interval of the tree
    tstage,      \* "parsed", "built" or "read"
    tread       \* what reading inferred_type.node gave

cacheVars ==
    <<files, epoch, disk, md5_files, mgr, op, err, failed, ret, dirty_seen, calls>>
repoVars  == <<memo, pc, treq, tparsed, tret, thit, serial>>
indexVars == <<parse, stage, infos, tree, q>>
viewVars  == <<active, code_info, wpc, wpath, wg, wret, ui>>
nameVars  == <<cands, retained, fqn, nstage, names, nq>>
parseVars == <<broken, parse_errors>>
rootVars  == <<live, caller>>
textVars == <<file_code, _lines, tq>>
typeVars == <<type_info, empty_range, inferred_type, indexed, tstage, tread>>
vars ==
    <<cacheVars, repoVars, indexVars, viewVars, nameVars, parseVars, rootVars, textVars, typeVars>>

(***************************************************************************)
(* Bounds of the model.                                                    *)
(***************************************************************************)
MaxContent == 1     \* a file holds one of the byte strings 0..MaxContent
MaxEdits   == 2     \* byte changes made during one run
MaxFp      == 1     \* calculate_md5 gives one of the values 0..MaxFp
MaxThreads == 2     \* worker threads of the default executor
MaxBuilds  == 3     \* SourceFileInfo objects constructed during one run
MaxNodes   == 3     \* syntax nodes of the parsed file
MaxPos     == 3     \* distinct code positions in the parsed file
MaxTasks   == 2     \* background tasks of CodeView running at one time
MaxNamed   == 2     \* syntax nodes the name resolver has an entry for
MaxCode    == 3     \* a file's text has at most MaxCode characters
MaxType    == 2     \* an inferred-type string has at most MaxType tokens
MaxKeys    == 3     \* keys the name index can grow to

Paths     == {"a.py", "b.py"}
Contents  == 0..MaxContent

\* RepoInfo.__init__ passes these two providers, in this order.
Providers == <<"TypeInferenceProvider", "FullyQualifiedNameProvider">>
ProviderSet == {Providers[i] : i \in 1..Len(Providers)}
Keys == ProviderSet \cup {"md5"}

\* Repository roots, and the relative paths RepoInfo finds under each
\* (repo_root.rglob("*.py")).
Roots == {"r1", "r2"}
Tracked(root) == IF root = "r1" THEN Paths ELSE {"b.py"}

Absent == [present |-> FALSE]
\* What a provider's gen_cache computes for the manager of root over its
\* tracked path set: a mapping with one item per tracked path, determined
\* by the bytes of every tracked file at that moment.
EntryOf(root, fs, ep) ==
    [present |-> TRUE, root |-> root, paths |-> Tracked(root),
     from |-> fs, epoch |-> ep]
Entry(fs, ep) == EntryOf("r1", fs, ep)
Md5(fp) == [present |-> TRUE, v |-> fp]
NoRet == [p \in ProviderSet |-> Absent]
EmptyDisk == [k \in Keys |-> Absent]

(***************************************************************************)
(* DiskCacheRepoManager                                                    *)
(***************************************************************************)

\* hash(frozenset(md5(bytes) for path in paths)): the md5 objects hash by
\* identity, so the value depends on where the interpreter allocated them
\* and not on the bytes.  The set of values a call can give.
calculate_md5 == 0..MaxFp

\* dirty, for a value fp of calculate_md5: current_md5 != cache.get("md5")
dirty(d, fp) == Md5(fp) # d["md5"]

\* The loop of resolve_cache from provider number i on.  raises is the set
\* of providers whose gen_cache raises when invoked; val is what gen_cache
\* computes now.
RECURSIVE resolve_loop(_, _, _, _, _)
resolve_loop(d, i, raises, val, called) ==
    IF i > Len(Providers)
    THEN [disk |-> d, err |-> "none", failed |-> "none", called |-> called]
    ELSE LET provider == Providers[i] IN
         IF d[provider].present
         THEN resolve_loop(d, i + 1, raises, val, called)
         ELSE IF provider \in raises
         THEN [disk |-> d, err |-> "ProviderError", failed |-> provider,
               called |-> called \cup {provider}]
         ELSE resolve_loop([d EXCEPT ![provider] = val], i + 1, raises, val,
                           called \cup {provider})

\* resolve_cache with the fingerprint stored in a finally clause.
resolve_cache_md5_always(d, raises, val, fp) ==
    LET r == resolve_loop(d, 1, raises, val, {}) IN
    [r EXCEPT !.disk = [r.disk EXCEPT !["md5"] = Md5(fp)]]

resolve_cache(d, raises, val, fp) ==
    LET r == resolve_loop(d, 1, raises, val, {}) IN
    IF r.err = "none"
    THEN [r EXCEPT !.disk = [r.disk EXCEPT !["md5"] = Md5(fp)]]
    ELSE r

\* The part of a provider's entry that belongs to path: it was computed
\* from the bytes of all tracked files, so it carries the entry's origin.
EntryAt(e, path) ==
    [present |-> TRUE, path |-> path, root |-> e.root,
     from |-> e.from, epoch |-> e.epoch]

\* get_cache_for_path: resolve_cache(), then read every provider's entry
\* for path; an entry that has no item for path raises KeyError.
get_cache_for_path(d, path, raises, val, fp) ==
    LET r == resolve_cache(d, raises, val, fp)
        missing == r.err = "none" /\ \E p \in ProviderSet : path \notin r.disk[p].paths
    IN
    [disk |-> r.disk, err |-> IF missing THEN "KeyError" ELSE r.err,
     failed |-> r.failed, called |-> r.called,
     ret |-> IF r.err = "none" /\ ~missing
             THEN [p \in ProviderSet |-> EntryAt(r.disk[p], path)]
             ELSE NoRet]

\* DiskCacheRepoManager.__init__: clear the store when dirty.
manager_init(d, fp) == IF dirty(d, fp) THEN EmptyDisk ELSE d

\* The store is empty before the first session; every file holds the
\* byte string 0.
InitStore ==
    /\ files = [p \in Paths |-> 0]
    /\ epoch = 0
    /\ disk = EmptyDisk
    /\ md5_files = <<>>
    /\ op = "start"
    /\ err = "none"
    /\ failed = "none"
    /\ ret = NoRet
    /\ dirty_seen = FALSE
    /\ calls = {}

\* A new session constructs its manager over the store the last one left.
NewManager ==
    \E fp \in calculate_md5 :
        /\ disk' = manager_init(disk, fp)
        /\ dirty_seen' = dirty(disk, fp)
        /\ md5_files' = IF dirty(disk, fp) THEN <<>> ELSE md5_files
        /\ mgr' = TRUE
        /\ op' = "init"
        /\ err' = "none"
        /\ failed' = "none"
        /\ calls' = {}
        /\ ret' = NoRet
        /\ UNCHANGED <<files, epoch, repoVars, indexVars, viewVars, nameVars, parseVars, rootVars, textVars, typeVars>>

ReadDirty ==
    /\ mgr
    /\ \E fp \in calculate_md5 : dirty_seen' = dirty(disk, fp)
    /\ op' = "dirty"
    /\ err' = "none"
    /\ failed' = "none"
    /\ calls' = {}
    /\ ret' = NoRet
    /\ UNCHANGED <<files, epoch, disk, md5_files, mgr, repoVars, indexVars, viewVars, nameVars, parseVars, rootVars, textVars, typeVars>>

ResolveCache ==
    /\ mgr
    /\ \E raises \in SUBSET ProviderSet, fp \in calculate_md5 :
        LET r == resolve_cache(disk, raises, Entry(files, epoch), fp) IN
        /\ disk' = r.disk
        /\ err' = r.err
        /\ failed' = r.failed
        /\ calls' = r.called
        /\ md5_files' = IF r.err = "none" THEN <<files, epoch>> ELSE md5_files
    /\ op' = "resolve"
    /\ ret' = NoRet
    /\ dirty_seen' = FALSE
    /\ UNCHANGED <<files, epoch, mgr, repoVars, indexVars, viewVars, nameVars, parseVars, rootVars, textVars, typeVars>>

GetCacheForPath ==
    /\ mgr
    /\ \E path \in Paths, raises \in SUBSET ProviderSet, fp \in calculate_md5 :
        LET r == get_cache_for_path(disk, path, raises, Entry(files, epoch), fp) IN
        /\ disk' = r.disk
        /\ err' = r.err
        /\ failed' = r.failed
        /\ calls' = r.called
        /\ ret' = r.ret
        /\ md5_files' = IF r.err = "none" THEN <<files, epoch>> ELSE md5_files
    /\ op' = "get"
    /\ dirty_seen' = FALSE
    /\ UNCHANGED <<files, epoch, mgr, repoVars, indexVars, viewVars, nameVars, parseVars, rootVars, textVars, typeVars>>

\* RepoInfo(root): a manager for root is constructed over the store in
\* the working directory, whatever root it is for.
NewManagerOf(root) ==
    /\ root \notin live
    /\ \E fp \in calculate_md5 :
        /\ disk' = manager_init(disk, fp)
        /\ dirty_seen' = dirty(disk, fp)
        /\ md5_files' = IF dirty(disk, fp) THEN <<>> ELSE md5_files
    /\ live' = live \cup {root}
    /\ caller' = root
    /\ op' = "init"
    /\ err' = "none"
    /\ failed' = "none"
    /\ calls' = {}
    /\ ret' = NoRet
    /\ UNCHANGED <<files, epoch, mgr, repoVars, indexVars, viewVars, nameVars,
                   parseVars, textVars, typeVars>>

\* get_cache_for_path(path) on the manager of root, for one of its
\* tracked paths.  files stands for the bytes under either root; what
\* tells two roots' entries apart is the field root.
GetCacheForPathOf(root) ==
    /\ root \in live
    /\ \E path \in Tracked(root), raises \in SUBSET ProviderSet,
          fp \in calculate_md5 :
        LET r == get_cache_for_path(disk, path, raises,
                                    EntryOf(root, files, epoch), fp) IN
        /\ disk' = r.disk
        /\ err' = r.err
        /\ failed' = r.failed
        /\ calls' = r.called
        /\ ret' = r.ret
        /\ md5_files' = IF r.err = "none" THEN <<files, epoch>> ELSE md5_files
    /\ caller' = root
    /\ op' = "get"
    /\ dirty_seen' = FALSE
    /\ UNCHANGED <<files, epoch, mgr, live, repoVars, indexVars, viewVars,
                   nameVars, parseVars, textVars, typeVars>>

\* The environment changes the bytes of one tracked file.
WriteFile ==
    /\ epoch < MaxEdits
    /\ \E p \in Paths, c \in Contents :
        /\ c # files[p]
        /\ files' = [files EXCEPT ![p] = c]
    /\ epoch' = epoch + 1
    /\ op' = "write"
    /\ err' = "none"
    /\ failed' = "none"
    /\ ret' = NoRet
    /\ dirty_seen' = FALSE
    /\ calls' = {}
    /\ UNCHANGED <<disk, md5_files, mgr, repoVars, indexVars, viewVars, nameVars, parseVars, rootVars, textVars, typeVars>>

(***************************************************************************)
(* RepoInfo.get_src_info behind functools.lru_cache(maxsize=512)           *)
(***************************************************************************)
Threads == 1..MaxThreads

NoInfo == [present |-> FALSE]
\* A SourceFileInfo: parsed is the text the syntax tree was parsed from,
\* code the text SourceFileInfo.__init__ read, id the object's identity.
SourceFileInfo(path, parsed, code, id) ==
    [present |-> TRUE, path |-> path, parsed |-> parsed, code |-> code, id |-> id]

\* What get_src_info raises when cst.parse_module rejects the text.
ParserSyntaxError == [present |-> FALSE, err |-> "ParserSyntaxError"]

\* cst.parse_module that accepts every text.
parse_module_lenient(path, text, brk) == [ok |-> TRUE, module |-> text]

\* file_contents = Path(path).read_text(); cst.parse_module(file_contents)
parse_module(path, text, brk) ==
    IF path \in brk THEN [ok |-> FALSE] ELSE [ok |-> TRUE, module |-> text]

\* The lookup the lru_cache wrapper makes before it calls the function:
\* the key is the path argument alone.
lru_lookup(m, path) == m[path]

\* The store the wrapper makes after the function returned: when the key
\* was added during the call, the entry already there is kept.
lru_store(m, path, result) ==
    IF m[path].present THEN m ELSE [m EXCEPT ![path] = result]

InitRepo ==
    /\ memo = [p \in Paths |-> NoInfo]
    /\ pc = [t \in Threads |-> "idle"]
    /\ treq = [t \in Threads |-> "a.py"]
    /\ tparsed = [t \in Threads |-> 0]
    /\ tret = [t \in Threads |-> NoInfo]
    /\ thit = [t \in Threads |-> FALSE]
    /\ serial = 0

\* A worker thread calls get_src_info(path): the wrapper answers from the
\* cache, or the function starts and get_metadata_wrapper_for_path reads
\* and parses the file; a parse error leaves the function at once.
Call(t) ==
    /\ pc[t] = "idle"
    /\ \E path \in Paths :
        /\ treq' = [treq EXCEPT ![t] = path]
        /\ IF lru_lookup(memo, path).present
           THEN /\ pc' = [pc EXCEPT ![t] = "done"]
                /\ tret' = [tret EXCEPT ![t] = lru_lookup(memo, path)]
                /\ thit' = [thit EXCEPT ![t] = TRUE]
                /\ UNCHANGED <<tparsed, parse_errors>>
           ELSE /\ serial < MaxBuilds
                /\ thit' = [thit EXCEPT ![t] = FALSE]
                /\ LET m == parse_module(path, files[path], broken) IN
                   IF m.ok
                   THEN /\ pc' = [pc EXCEPT ![t] = "building"]
                        /\ tparsed' = [tparsed EXCEPT ![t] = m.module]
                        /\ UNCHANGED <<tret, parse_errors>>
                   ELSE /\ pc' = [pc EXCEPT ![t] = "done"]
                        /\ tret' = [tret EXCEPT ![t] = ParserSyntaxError]
                        /\ parse_errors' = parse_errors \cup {path}
                        /\ UNCHANGED tparsed
    /\ UNCHANGED <<memo, serial, cacheVars, indexVars, viewVars, nameVars, broken, rootVars, textVars, typeVars>>

\* The rest of the call: get_cache_for_path, the construction of the
\* NodeInfo graph, SourceFileInfo(path, tree), and the wrapper's store.
Build(t) ==
    /\ pc[t] = "building"
    /\ \E raises \in SUBSET ProviderSet, fp \in calculate_md5 :
        LET r == get_cache_for_path(disk, treq[t], raises, Entry(files, epoch), fp)
            new == SourceFileInfo(treq[t], tparsed[t], files[treq[t]], serial + 1)
        IN
        /\ disk' = r.disk
        /\ md5_files' = IF r.err = "none" THEN <<files, epoch>> ELSE md5_files
        /\ IF r.err = "none"
           THEN /\ memo' = lru_store(memo, treq[t], new)
                /\ tret' = [tret EXCEPT ![t] = new]
                /\ serial' = serial + 1
           ELSE /\ tret' = [tret EXCEPT ![t] = NoInfo]
                /\ UNCHANGED <<memo, serial>>
    /\ pc' = [pc EXCEPT ![t] = "done"]
    /\ UNCHANGED <<files, epoch, mgr, op, err, failed, ret, dirty_seen, calls,
                   treq, tparsed, thit, indexVars, viewVars, nameVars, parseVars, rootVars, textVars, typeVars>>

\* The caller takes the result; the thread goes back to the pool and the
\* locals of the call are gone.
Return(t) ==
    /\ pc[t] = "done"
    /\ pc' = [pc EXCEPT ![t] = "idle"]
    /\ treq' = [treq EXCEPT ![t] = "a.py"]
    /\ tparsed' = [tparsed EXCEPT ![t] = 0]
    /\ tret' = [tret EXCEPT ![t] = NoInfo]
    /\ thit' = [thit EXCEPT ![t] = FALSE]
    /\ UNCHANGED <<memo, serial, cacheVars, indexVars, viewVars, nameVars, parseVars, rootVars, textVars, typeVars>>

(***************************************************************************)
(* The forms of the path argument of get_src_info                          *)
(***************************************************************************)
\* A path is the sequence of its parts; the argument is a str or a Path.
RootParts == <<"/", "repo">>
Arg(type, parts) == [type |-> type, parts |-> parts]
Args ==
    {Arg(ty, ps) : ty \in {"str", "Path"},
                   ps \in {<<p>> : p \in Paths} \cup {RootParts \o <<p>> : p \in Paths}}

\* Path.is_absolute()
is_absolute(path) == path.parts[1] = "/"

\* Path.relative_to(repo_root), for a path under repo_root
relative_to(path, root) ==
    Arg("Path", SubSeq(path.parts, Len(root) + 1, Len(path.parts)))

\* The first lines of get_src_info: a str becomes a Path, an absolute path
\* becomes relative to repo_root.
normalize_path(path) ==
    LET as_path == IF path.type = "str" THEN Arg("Path", path.parts) ELSE path
    IN IF is_absolute(as_path) THEN relative_to(as_path, RootParts) ELSE as_path

\* str(path) of a normalized path of one part
path_str(path) == path.parts[1]

\* The key the lru_cache wrapper makes of the call get_src_info(path):
\* the argument as it was passed.  A str and a Path are never equal, nor
\* are an absolute and a relative path.
lru_key(path) == path

InitArgs ==
    /\ memo = [k \in Args |-> NoInfo]
    /\ pc = [t \in Threads |-> "idle"]
    /\ treq = [t \in Threads |-> Arg("str", <<"a.py">>)]
    /\ tparsed = [t \in Threads |-> 0]
    /\ tret = [t \in Threads |-> NoInfo]
    /\ thit = [t \in Threads |-> FALSE]
    /\ serial = 0

\* One whole call get_src_info(path) by one caller: the wrapper answers
\* from the cache under the key of the argument, or the function runs:
\* it normalizes the path, reads and parses the file, resolves the
\* provider cache, builds the SourceFileInfo, and the wrapper stores it
\* under the key of the argument.
GetSrcInfoArg ==
    /\ \E path \in Args :
        /\ treq' = [treq EXCEPT ![1] = path]
        /\ IF lru_lookup(memo, lru_key(path)).present
           THEN /\ tret' = [tret EXCEPT ![1] = lru_lookup(memo, lru_key(path))]
                /\ thit' = [thit EXCEPT ![1] = TRUE]
                /\ UNCHANGED <<memo, serial, disk, md5_files>>
           ELSE /\ serial < MaxBuilds
                /\ thit' = [thit EXCEPT ![1] = FALSE]
                /\ \E raises \in SUBSET ProviderSet, fp \in calculate_md5 :
                    LET rel == path_str(normalize_path(path))
                        r == get_cache_for_path(disk, rel, raises,
                                                Entry(files, epoch), fp)
                        new == SourceFileInfo(rel, files[rel], files[rel], serial + 1)
                    IN
                    /\ disk' = r.disk
                    /\ md5_files' = IF r.err = "none" THEN <<files, epoch>>
                                    ELSE md5_files
                    /\ IF r.err = "none"
                       THEN /\ memo' = lru_store(memo, lru_key(path), new)
                            /\ tret' = [tret EXCEPT ![1] = new]
                            /\ serial' = serial + 1
                       ELSE /\ tret' = [tret EXCEPT ![1] = NoInfo]
                            /\ UNCHANGED <<memo, serial>>
    /\ UNCHANGED <<files, epoch, mgr, op, err, failed, ret, dirty_seen, calls,
                   pc, tparsed, indexVars, viewVars, nameVars, parseVars,
                   rootVars, textVars, typeVars>>

(***************************************************************************)
(* CodeView: the background construction started by watch_active_file and  *)
(* the mouse events handled meanwhile on the event loop                    *)
(***************************************************************************)
Tasks == 1..MaxTasks

\* The locals of one run of get_src_info: collected is TRUE once the first
\* loop has filled node_data and nodes_to_info, linked once the second loop
\* has set every parent and children, inserted once the IntervalTree holds
\* the retained groups.
NoGraph == [collected |-> FALSE, linked |-> FALSE, inserted |-> FALSE]

\* get_src_info returning as soon as the first loop is over.
returns_early(g) == g.collected

\* The return statement is reached when the tree has been built.
returns(g) == g.inserted

\* The next block of get_src_info: first loop, second loop, IntervalTree.
construct_step(g) ==
    IF ~g.collected THEN [g EXCEPT !.collected = TRUE]
    ELSE IF ~g.linked THEN [g EXCEPT !.linked = TRUE]
    ELSE [g EXCEPT !.inserted = TRUE]

\* The SourceFileInfo made from the locals as they are at the return.
ViewInfo(path, g) ==
    [present |-> TRUE, path |-> path, collected |-> g.collected,
     linked |-> g.linked, inserted |-> g.inserted]

NoEvent == [event |-> "none"]

InitView ==
    /\ active = "none"
    /\ code_info = NoInfo
    /\ wpc = [w \in Tasks |-> "free"]
    /\ wpath = [w \in Tasks |-> "a.py"]
    /\ wg = [w \in Tasks |-> NoGraph]
    /\ wret = [w \in Tasks |-> NoInfo]
    /\ ui = NoEvent

\* watch_active_file(file): record the file and hand _set_code_info to
\* the default executor.  Task slots are interchangeable; the first free
\* one is taken.
WatchActiveFile ==
    /\ \E w \in Tasks :
        /\ wpc[w] = "free"
        /\ \A v \in Tasks : wpc[v] = "free" => w <= v
        /\ \E file \in Paths :
            /\ active' = file
            /\ wpath' = [wpath EXCEPT ![w] = file]
        /\ wpc' = [wpc EXCEPT ![w] = "queued"]
    /\ ui' = NoEvent
    /\ UNCHANGED <<code_info, wg, wret, memo, pc, treq, tparsed, tret, thit,
                   serial, cacheVars, indexVars, nameVars, parseVars, rootVars, textVars, typeVars>>

\* The task's thread calls get_src_info: the lru_cache answers, or the
\* function starts: the file is parsed and the provider data fetched, and
\* either of the two can raise, which ends the task.
TaskCall(w) ==
    /\ wpc[w] = "queued"
    /\ IF lru_lookup(memo, wpath[w]).present
       THEN /\ wpc' = [wpc EXCEPT ![w] = "returned"]
            /\ wret' = [wret EXCEPT ![w] = lru_lookup(memo, wpath[w])]
            /\ UNCHANGED wg
       ELSE \E raised \in BOOLEAN :
            /\ wpc' = [wpc EXCEPT ![w] = IF raised THEN "free" ELSE "building"]
            /\ wg' = [wg EXCEPT ![w] = NoGraph]
            /\ UNCHANGED wret
    /\ ui' = NoEvent
    /\ UNCHANGED <<active, code_info, wpath, memo, pc, treq, tparsed, tret,
                   thit, serial, cacheVars, indexVars, nameVars, parseVars, rootVars, textVars, typeVars>>

\* The task's thread runs the next block of get_src_info, or returns the
\* SourceFileInfo, which the lru_cache wrapper stores.
TaskConstruct(w) ==
    /\ wpc[w] = "building"
    /\ IF returns(wg[w])
       THEN /\ wpc' = [wpc EXCEPT ![w] = "returned"]
            /\ wret' = [wret EXCEPT ![w] = ViewInfo(wpath[w], wg[w])]
            /\ memo' = lru_store(memo, wpath[w], ViewInfo(wpath[w], wg[w]))
            /\ wg' = [wg EXCEPT ![w] = NoGraph]
       ELSE /\ wg' = [wg EXCEPT ![w] = construct_step(wg[w])]
            /\ UNCHANGED <<wpc, wret, memo>>
    /\ ui' = NoEvent
    /\ UNCHANGED <<active, code_info, wpath, pc, treq, tparsed, tret, thit,
                   serial, cacheVars, indexVars, nameVars, parseVars, rootVars, textVars, typeVars>>

\* _set_code_info: self._code_info = <what get_src_info returned>
SetCodeInfo(w) ==
    /\ wpc[w] = "returned"
    /\ code_info' = wret[w]
    /\ wpc' = [wpc EXCEPT ![w] = "free"]
    /\ wret' = [wret EXCEPT ![w] = NoInfo]
    /\ wpath' = [wpath EXCEPT ![w] = "a.py"]
    /\ ui' = NoEvent
    /\ UNCHANGED <<active, wg, memo, pc, treq, tparsed, tret, thit, serial,
                   cacheVars, indexVars, nameVars, parseVars, rootVars, textVars, typeVars>>

\* on_click: self._code_info.nodes_at(...), with no test for None.
OnClick ==
    /\ ui' = IF code_info = NoInfo
             THEN [event |-> "click", outcome |-> "AttributeError"]
             ELSE [event |-> "click", outcome |-> "answered",
                   from |-> code_info.path]
    /\ UNCHANGED <<active, code_info, wpc, wpath, wg, wret, repoVars,
                   cacheVars, indexVars, nameVars, parseVars, rootVars, textVars, typeVars>>

\* _trigger_type_display_update: return when self._code_info is None,
\* else nodes_at and minimal_node_from_set on it.
TriggerTypeDisplayUpdate ==
    /\ ui' = IF code_info = NoInfo
             THEN [event |-> "mouse", outcome |-> "ignored"]
             ELSE [event |-> "mouse", outcome |-> "answered",
                   from |-> code_info.path]
    /\ UNCHANGED <<active, code_info, wpc, wpath, wg, wret, repoVars,
                   cacheVars, indexVars, nameVars, parseVars, rootVars, textVars, typeVars>>

(***************************************************************************)
(* CodePos                                                                 *)
(***************************************************************************)
CodePos(line, column) == [line |-> line, column |-> column]

\* The positions of the model's files: lines from 1, columns 0 and 1.
Pos(i) == CodePos(1 + (i - 1) \div 2, (i - 1) % 2)
Positions == {Pos(i) : i \in 1..MaxPos}

\* CodePos.__lt__
lt(self, other) ==
    IF self.line < other.line THEN TRUE
    ELSE IF self.line = other.line THEN self.column < other.column
    ELSE FALSE

\* CodePos.__eq__
eq(self, other) == self.line = other.line /\ self.column = other.column

\* __le__, __gt__, __ge__ as functools.total_ordering derives them from
\* __lt__ and __eq__
le(self, other) == lt(self, other) \/ eq(self, other)
gt(self, other) == ~lt(self, other) /\ ~eq(self, other)
ge(self, other) == ~lt(self, other)

(***************************************************************************)
(* The parser's output for one file: wrapper.resolve_many(...)             *)
(***************************************************************************)
None == <<"none", 0>>
Cst(c) == <<"cst", c>>      \* a raw syntax node
Info(n) == <<"info", n>>    \* the NodeInfo created for syntax node n

Ranges == {r \in Positions \X Positions : le(r[1], r[2])}

\* Syntax nodes are numbered from the root (the Module, node 1); a node's
\* parent has a smaller number.  parent[n] = 0: ParentNodeProvider has no
\* entry for n.
ParentMaps(k) ==
    {f \in [1..k -> 0..(k - 1)] :
        \A i \in 1..k : f[i] < i /\ ((i = 1) <=> (f[i] = 0))}

\* Where PositionProvider puts a child relative to its parent: inside the
\* parent's range, or wholly before or after it (parentheses, decorators
\* and leading lines are children that the parent's range leaves out).
Encloses(p, c) == le(p[1], c[1]) /\ le(c[2], p[2])
Beside(p, c) == le(c[2], p[1]) \/ le(p[2], c[1])

ParseResults ==
    UNION {
        {pr \in [n : {k}, range : [1..k -> Ranges], parent : ParentMaps(k)] :
            \A c \in 2..k :
                /\ Encloses(pr.range[1], pr.range[c])
                /\ \/ Encloses(pr.range[pr.parent[c]], pr.range[c])
                   \/ Beside(pr.range[pr.parent[c]], pr.range[c])}
        : k \in 1..MaxNodes}

\* meta_positions.items(): PositionProvider stores a node's range when the
\* node's code generation ends, so children come before their parents.
PositionOrder(pr) == [i \in 1..pr.n |-> pr.n + 1 - i]

\* The orders in which a set of NodeInfo can be iterated: NodeInfo hashes
\* by the identity of its syntax node.
Perms(k) == {f \in [1..k -> 1..k] : \A i, j \in 1..k : f[i] = f[j] => i = j}
InOrder(S, perm) == LET Member(x) == x \in S IN SelectSeq(perm, Member)

(***************************************************************************)
(* RepoInfo.get_src_info: construction of the NodeInfo graph               *)
(***************************************************************************)
NodeInfo(node, code_start, code_end, parent) ==
    [node |-> node, code_start |-> code_start, code_end |-> code_end,
     parent |-> parent, children |-> {}]

\* meta_parents.get(node)
meta_parent(pr, node) ==
    IF pr.parent[node] = 0 THEN None ELSE Cst(pr.parent[node])

\* First loop: one NodeInfo per positioned node, grouped by (start, end).
\* keys is the insertion order of node_data, data its values.
RECURSIVE first_pass(_, _, _, _, _, _)
first_pass(pr, ord, i, keys, data, n2i) ==
    IF i > Len(ord)
    THEN [keys |-> keys, node_data |-> data, nodes_to_info |-> n2i]
    ELSE LET node == ord[i]
             pos == pr.range[node]
             new_node == NodeInfo(node, pos[1], pos[2], meta_parent(pr, node))
             old == IF pos \in DOMAIN data THEN data[pos] ELSE {}
         IN first_pass(pr, ord, i + 1,
                IF pos \in DOMAIN data THEN keys ELSE Append(keys, pos),
                [k \in DOMAIN data \cup {pos} |->
                    IF k = pos THEN old \cup {node} ELSE data[k]],
                [m \in DOMAIN n2i \cup {node} |->
                    IF m = node THEN new_node ELSE n2i[m]])

\* nodes_to_info.get(x) for the value x of a parent field
nodes_to_info_get(n2i, x) ==
    IF x[1] = "cst" /\ x[2] \in DOMAIN n2i THEN Info(x[2]) ELSE None

\* link_node without the line that adds the node to its parent's children.
link_node_no_children(n2i, node) ==
    [n2i EXCEPT ![node].parent = nodes_to_info_get(n2i, n2i[node].parent)]

\* The body of the inner loop of the second pass, for one node:
\*   node.parent = nodes_to_info.get(node.parent)
\*   if node.parent is not None: node.parent.children.add(node)
link_node(n2i, node) ==
    LET p == nodes_to_info_get(n2i, n2i[node].parent)
        linked == [n2i EXCEPT ![node].parent = p]
    IN IF p # None
       THEN [linked EXCEPT ![p[2]].children = @ \cup {node}]
       ELSE linked

RECURSIVE link_group(_, _, _)
link_group(n2i, items, j) ==
    IF j > Len(items) THEN n2i
    ELSE link_group(link_node(n2i, items[j]), items, j + 1)

\* The second loop without the test that skips the groups with
\* pos[0] == pos[1].
RECURSIVE second_pass_keep_null(_, _, _, _, _)
second_pass_keep_null(fp, perm, i, kept, n2i) ==
    IF i > Len(fp.keys)
    THEN [node_infos |-> kept, nodes_to_info |-> n2i]
    ELSE LET pos == fp.keys[i] IN
         second_pass_keep_null(fp, perm, i + 1, kept \cup {pos},
             link_group(n2i, InOrder(fp.node_data[pos], perm), 1))

\* Second loop: over node_data.items(); groups with pos[0] == pos[1] are
\* skipped, the others go to node_infos and have their nodes linked.
RECURSIVE second_pass(_, _, _, _, _)
second_pass(fp, perm, i, kept, n2i) ==
    IF i > Len(fp.keys)
    THEN [node_infos |-> kept, nodes_to_info |-> n2i]
    ELSE LET pos == fp.keys[i] IN
         IF eq(pos[1], pos[2])
         THEN second_pass(fp, perm, i + 1, kept, n2i)
         ELSE second_pass(fp, perm, i + 1, kept \cup {pos},
                  link_group(n2i, InOrder(fp.node_data[pos], perm), 1))

\* The whole construction: the NodeInfo of every node and the intervals
\* handed to IntervalTree.from_tuples.
get_src_info(pr, perm) ==
    LET fp == first_pass(pr, PositionOrder(pr), 1, <<>>, <<>>, <<>>)
        sp == second_pass(fp, perm, 1, {}, fp.nodes_to_info)
    IN [infos |-> sp.nodes_to_info,
        tree |-> {[begin |-> pos[1], end |-> pos[2], data |-> fp.node_data[pos]]
                    : pos \in sp.node_infos}]

\* SourceFileInfo.node_infos
node_infos == UNION {iv.data : iv \in tree}

\* NodeInfo.iter_parents, started on the NodeInfo of node n: the values it
\* yields and how it ends.  A raw syntax node has no attribute parent.
RECURSIVE iter_parents_from(_, _, _)
iter_parents_from(n2i, cur, yielded) ==
    IF cur[1] = "cst"
    THEN [yielded |-> yielded, err |-> "AttributeError"]
    ELSE LET p == n2i[cur[2]].parent IN
         IF p = None
         THEN [yielded |-> yielded, err |-> "none"]
         ELSE iter_parents_from(n2i, p, Append(yielded, p))

iter_parents(n2i, n) == iter_parents_from(n2i, Info(n), <<>>)

\* The points a query can be made at: on_click and
\* _trigger_type_display_update build CodePos(event.y + 1, event.x - 6), so
\* the line can lie past the last line and the column can be negative or
\* past the end of the line.
LastLine == Pos(MaxPos).line
QueryPoints == {CodePos(l, c) : l \in 1..(LastLine + 1), c \in (0 - 1)..2}

\* None passed where a CodePos is expected (the default of end).
NonePos == [none |-> TRUE]

\* IntervalTree.at(p) with the upper end of an interval included.
tree_at_closed(t, p) == {iv \in t : le(iv.begin, p) /\ le(p, iv.end)}

\* IntervalTree.at(p): the intervals with begin <= p < end, compared with
\* the operators of CodePos.
tree_at(t, p) == {iv \in t : le(iv.begin, p) /\ lt(p, iv.end)}

\* IntervalTree.overlap(begin, end): nothing when begin >= end, else the
\* intervals with iv.begin < end and iv.end > begin.
tree_overlap(t, begin, end) ==
    IF ge(begin, end) THEN {}
    ELSE {iv \in t : lt(iv.begin, end) /\ gt(iv.end, begin)}

\* SourceFileInfo.intervals_at(start, end)
intervals_at(t, start, end) ==
    IF end = NonePos THEN tree_at(t, start) ELSE tree_overlap(t, start, end)

\* SourceFileInfo.nodes_at(start, end)
nodes_at(t, start, end) == UNION {iv.data : iv \in intervals_at(t, start, end)}

\* The loop of minimal_node_from_set without the line that records the
\* parents of a candidate in seen_parents.
RECURSIVE minimal_loop_forgetful(_, _, _, _, _)
minimal_loop_forgetful(n2i, items, j, seen_parents, min_node) ==
    IF j > Len(items)
    THEN [value |-> min_node, err |-> "none"]
    ELSE LET node == Info(items[j])
             ps == iter_parents(n2i, items[j])
         IN IF ps.err # "none"
            THEN [value |-> None, err |-> ps.err]
            ELSE minimal_loop_forgetful(n2i, items, j + 1, seen_parents,
                     IF node \notin seen_parents THEN node ELSE min_node)

\* The loop of minimal_node_from_set over the candidates in iteration
\* order: a candidate not yet seen as a parent becomes min_node, then all
\* it yields from iter_parents goes to seen_parents.
RECURSIVE minimal_loop(_, _, _, _, _)
minimal_loop(n2i, items, j, seen_parents, min_node) ==
    IF j > Len(items)
    THEN [value |-> min_node, err |-> "none"]
    ELSE LET node == Info(items[j])
             ps == iter_parents(n2i, items[j])
         IN IF ps.err # "none"
            THEN [value |-> None, err |-> ps.err]
            ELSE minimal_loop(n2i, items, j + 1,
                     seen_parents \cup {ps.yielded[k] : k \in 1..Len(ps.yielded)},
                     IF node \notin seen_parents THEN node ELSE min_node)

\* SourceFileInfo.minimal_node_from_set(nodes), nodes iterated in the
\* order items.
minimal_node_from_set(n2i, items) == minimal_loop(n2i, items, 1, {}, None)

NoParse == [n |-> 1, range |-> <<<<Pos(1), Pos(1)>>>>, parent |-> <<0>>]
NoQuery == [kind |-> "none"]

InitIndex ==
    /\ parse \in ParseResults
    /\ stage = "parsed"
    /\ infos = <<>>
    /\ tree = {}
    /\ q = NoQuery

GetSrcInfo ==
    /\ stage = "parsed"
    /\ \E perm \in Perms(parse.n) :
        LET r == get_src_info(parse, perm) IN
        /\ infos' = r.infos
        /\ tree' = r.tree
    /\ stage' = "built"
    /\ UNCHANGED <<parse, q, cacheVars, repoVars, viewVars, nameVars, parseVars, rootVars, textVars, typeVars>>

IterParents ==
    /\ stage = "built"
    /\ \E n \in node_infos :
        q' = [kind |-> "iter_parents", node |-> n, out |-> iter_parents(infos, n)]
    /\ stage' = "queried"
    /\ UNCHANGED <<parse, infos, tree, cacheVars, repoVars, viewVars, nameVars, parseVars, rootVars, textVars, typeVars>>

MinimalNodeFromSet ==
    /\ stage = "built"
    /\ \E S \in SUBSET node_infos :
        \E items \in {InOrder(S, perm) : perm \in Perms(parse.n)} :
            q' = [kind |-> "minimal_node_from_set", nodes |-> S,
                  out |-> minimal_node_from_set(infos, items)]
    /\ stage' = "queried"
    /\ UNCHANGED <<parse, infos, tree, cacheVars, repoVars, viewVars, nameVars, parseVars, rootVars, textVars, typeVars>>

\* nodes_at(start) at any query point, nodes_at(start, end) between two
\* positions of the file.
NodesAt ==
    /\ stage = "built"
    /\ \E start \in QueryPoints, end \in Positions \cup {NonePos} :
        /\ end # NonePos => start \in Positions
        /\ q' = [kind |-> "nodes_at", start |-> start, end |-> end,
                 out |-> nodes_at(tree, start, end)]
    /\ stage' = "queried"
    /\ UNCHANGED <<parse, infos, tree, cacheVars, repoVars, viewVars, nameVars, parseVars, rootVars, textVars, typeVars>>

\* The caller has consumed the result of the query; the index is as it
\* was built.
QueryReturn ==
    /\ stage = "queried"
    /\ stage' = "built"
    /\ q' = NoQuery
    /\ UNCHANGED <<parse, infos, tree, cacheVars, repoVars, viewVars, nameVars, parseVars, rootVars, textVars, typeVars>>

(***************************************************************************)
(* Qualified names: the fqn of a NodeInfo and the name index of            *)
(* SourceFileInfo                                                          *)
(***************************************************************************)
QualifiedName(name, source) == [name |-> name, source |-> source]
\* The names the resolver reports in the file, and one it does not.
QNames == {QualifiedName("f", "LOCAL"), QualifiedName("f", "IMPORT")}
UnusedQName == QualifiedName("g", "LOCAL")
NoFqn == [none |-> TRUE]    \* None in the field fqn
Named == 1..MaxNamed

\* The sets FullyQualifiedNameProvider gives for a node: none, one or two
\* names.
CandSets == SUBSET QNames

\* fqn_set.pop() if fqn_set else None.  set.pop() removes the element in
\* the first used slot of the hash table; the hash of a QualifiedName
\* comes from str hashes, which every interpreter process randomizes, so
\* any element of the set can be the one.  The values the expression can
\* give.
pop(fqn_set) == IF fqn_set = {} THEN {NoFqn} ELSE fqn_set

\* The key of the name index for a NodeInfo passed as the name.
NodeKey(n) == [node |-> n]

\* A str passed as the name.
Str(x) == [str |-> x]

\* The name index: keys in insertion order, and the set under each key.
EmptyDict == [keys |-> <<>>, val |-> <<>>]
HasKey(d, k) == \E i \in 1..Len(d.keys) : d.keys[i] = k
IndexOf(d, k) == CHOOSE i \in 1..Len(d.keys) : d.keys[i] = k

\* defaultdict(set).__getitem__(k): a missing key is inserted with an
\* empty set.
dict_getitem(d, k) ==
    IF HasKey(d, k)
    THEN [dict |-> d, value |-> d.val[IndexOf(d, k)]]
    ELSE [dict |-> [keys |-> Append(d.keys, k), val |-> Append(d.val, {})],
          value |-> {}]

\* qualified_names_to_node_infos[fqn] = {node_info}: the loop of
\* SourceFileInfo.__init__ with an assignment in place of add.
RECURSIVE index_names_assign(_, _, _, _)
index_names_assign(items, j, fq, d) ==
    IF j > Len(items) THEN d
    ELSE IF fq[items[j]] = NoFqn THEN index_names_assign(items, j + 1, fq, d)
    ELSE LET g == dict_getitem(d, fq[items[j]]).dict
         IN index_names_assign(items, j + 1, fq,
                [g EXCEPT !.val[IndexOf(g, fq[items[j]])] = {items[j]}])

\* The loop of SourceFileInfo.__init__ over node_infos in iteration order:
\*   if node_info.fqn is not None:
\*       self.qualified_names_to_node_infos[node_info.fqn].add(node_info)
RECURSIVE index_names(_, _, _, _)
index_names(items, j, fq, d) ==
    IF j > Len(items) THEN d
    ELSE IF fq[items[j]] = NoFqn THEN index_names(items, j + 1, fq, d)
    ELSE LET g == dict_getitem(d, fq[items[j]]).dict
         IN index_names(items, j + 1, fq,
                [g EXCEPT !.val[IndexOf(g, fq[items[j]])] = @ \cup {items[j]}])

\* next(ni for ni in d if ni.name == name), from key number i on.
RECURSIVE first_key_named(_, _, _)
first_key_named(d, name, i) ==
    IF i > Len(d.keys) THEN [err |-> "StopIteration"]
    ELSE IF "name" \notin DOMAIN d.keys[i] THEN [err |-> "AttributeError"]
    ELSE IF d.keys[i].name = name THEN [err |-> "none", key |-> d.keys[i]]
    ELSE first_key_named(d, name, i + 1)

\* SourceFileInfo.occurences_of_name(name)
occurences_of_name(d, name) ==
    IF "str" \in DOMAIN name
    THEN LET k == first_key_named(d, name.str, 1) IN
         IF k.err # "none"
         THEN [dict |-> d, err |-> k.err, out |-> {}]
         ELSE [dict |-> dict_getitem(d, k.key).dict, err |-> "none",
               out |-> dict_getitem(d, k.key).value]
    ELSE [dict |-> dict_getitem(d, name).dict, err |-> "none",
          out |-> dict_getitem(d, name).value]

NoNameQuery == [kind |-> "none"]

InitNames ==
    /\ cands \in [Named -> CandSets]
    /\ retained \in SUBSET Named
    /\ fqn = [n \in Named |-> NoFqn]
    /\ nstage = "parsed"
    /\ names = EmptyDict
    /\ nq = NoNameQuery

\* get_src_info and SourceFileInfo.__init__ as far as names go: every
\* NodeInfo gets its fqn, and the name index is filled from node_infos.
\* A build after the first one is another run, in a new interpreter
\* process, on the same bytes and the same provider results; it reads
\* nothing of the SourceFileInfo made before, so it is taken from the
\* states in which no call has been made on that one.
BuildNames ==
    /\ nq = NoNameQuery
    /\ \E choice \in [Named -> QNames \cup {NoFqn}], perm \in Perms(MaxNamed) :
        /\ \A n \in Named : choice[n] \in pop(cands[n])
        /\ fqn' = choice
        /\ names' = index_names(InOrder(retained, perm), 1, choice, EmptyDict)
    /\ nstage' = "built"
    /\ nq' = NoNameQuery
    /\ UNCHANGED <<cands, retained, cacheVars, repoVars, indexVars, viewVars, parseVars, rootVars, textVars, typeVars>>

\* occurences_of_name called with a str, a QualifiedName, or a NodeInfo
\* of the index (as render does).
OccurencesOfName ==
    /\ nstage = "built"
    /\ \E name \in {Str("f"), Str("g")} \cup QNames \cup {UnusedQName}
                    \cup {NodeKey(n) : n \in retained} :
        LET r == occurences_of_name(names, name) IN
        /\ Len(r.dict.keys) <= MaxKeys
        /\ names' = r.dict
        /\ nq' = [kind |-> "occurences_of_name", name |-> name,
                  err |-> r.err, out |-> r.out]
    /\ UNCHANGED <<cands, retained, fqn, nstage, cacheVars, repoVars,
                   indexVars, viewVars, parseVars, rootVars, textVars, typeVars>>

(***************************************************************************)
(* The text of a file: SourceFileInfo.code, _lines and code_at             *)
(***************************************************************************)
\* A str is the sequence of its characters.
NL == "\n"
Chars == {"a", "b", NL}
Strs(n) == UNION {[1..k -> Chars] : k \in 0..n}

\* str.splitlines(): the text is cut after every line break, the breaks are
\* dropped, and no empty line follows a final line break.
RECURSIVE splitlines_from(_, _, _, _)
splitlines_from(s, i, cur, out) ==
    IF i > Len(s)
    THEN IF cur = <<>> THEN out ELSE Append(out, cur)
    ELSE IF s[i] = NL
         THEN splitlines_from(s, i + 1, <<>>, Append(out, cur))
         ELSE splitlines_from(s, i + 1, Append(cur, s[i]), out)

splitlines(s) == splitlines_from(s, 1, <<>>, <<>>)

\* x[a:b] for a sequence x and a, b >= 0: the items of index a .. b - 1
\* that exist.
slice(x, a, b) == SubSeq(x, a + 1, IF b < Len(x) THEN b ELSE Len(x))

\* "\n".join(lines)
RECURSIVE join(_)
join(ls) ==
    IF ls = <<>> THEN <<>>
    ELSE IF Len(ls) = 1 THEN ls[1]
    ELSE ls[1] \o <<NL>> \o join(Tail(ls))

\* self._lines = ["", *self.code.splitlines()]: _lines[k] of the source is
\* item k + 1 here.
lines_of(text) == <<<<>>>> \o splitlines(text)

\* SourceFileInfo.code_at(start, end).  The lru_cache on it is keyed by
\* (self, start, end) and _lines never changes, so a cached answer is the
\* computed one.
code_at(ls, start, end) ==
    IF start.line = end.line
    THEN IF start.line >= Len(ls)
         THEN [out |-> <<>>, err |-> "IndexError"]
         ELSE [out |-> slice(ls[start.line + 1], start.column, end.column),
               err |-> "none"]
    ELSE [out |-> join(slice(ls, start.line, end.line)), err |-> "none"]

\* The positions code_at is asked about: lines from 1, columns from 0.
TextPoints == {CodePos(l, c) : l \in 1..MaxCode, c \in 0..MaxCode}

NoTextQuery == [kind |-> "none"]

\* SourceFileInfo.__init__ has read the file.
InitText ==
    /\ file_code \in Strs(MaxCode)
    /\ _lines = lines_of(file_code)
    /\ tq = NoTextQuery

CodeAt ==
    /\ tq = NoTextQuery
    /\ \E start \in TextPoints, end \in TextPoints :
        LET r == code_at(_lines, start, end) IN
        tq' = [kind |-> "code_at", start |-> start, end |-> end,
               out |-> r.out, err |-> r.err]
    /\ UNCHANGED <<file_code, _lines, cacheVars, repoVars, indexVars, viewVars,
                   nameVars, parseVars, rootVars, typeVars>>

\* The caller has consumed the text; the SourceFileInfo is as it was.
CodeAtReturn ==
    /\ tq # NoTextQuery
    /\ tq' = NoTextQuery
    /\ UNCHANGED <<file_code, _lines, cacheVars, repoVars, indexVars, viewVars,
                   nameVars, parseVars, rootVars, typeVars>>

(***************************************************************************)
(* Inferred types: NodeInfo.inferred_type and InferredTypeNode             *)
(***************************************************************************)
\* An inferred-type string is a sequence of tokens: a well-formed piece of
\* an expression ("int"), the three forms of the type checker's output
\* that InferredTypeNode.node rewrites, and a piece that is no Python
\* syntax whatever is done to it ("?").
TypeTokens == {"int", "[]", " (bound to ", "$", "?"}
TypeStrs == UNION {[1..k -> TypeTokens] : k \in 0..MaxType}
\* meta_inferred_types.get(node) when the node has no entry
NoType == <<"None">>
\* None in the field inferred_type
NoInferredType == [none |-> TRUE]
NoNode == [none |-> TRUE]

\* str.replace(old, new)
replace(s, old, new) == [i \in 1..Len(s) |-> IF s[i] = old THEN new ELSE s[i]]

\* cst.parse_expression(code): the parser accepts a non-empty text made
\* of pieces of Python expressions and raises ParserSyntaxError otherwise.
PythonTokens == {"int", "[NoContent]", "(bound=", "__dollar_sign__"}
parse_expression(c) ==
    IF c # <<>> /\ \A i \in 1..Len(c) : c[i] \in PythonTokens
    THEN [err |-> "none", node |-> [expr |-> c]]
    ELSE [err |-> "ParserSyntaxError", node |-> NoNode]

\* cst.Name(value)
Name(value) == [name |-> value]

\* InferredTypeNode(inferred_type_str)
InferredTypeNode(inferred_type_str) == [inferred_type_str |-> inferred_type_str]

\* The three replacements node applies before it parses.
normalized(s) ==
    replace(replace(replace(s, "[]", "[NoContent]"),
                    " (bound to ", "(bound="),
            "$", "__dollar_sign__")

\* InferredTypeNode.node with the ParserSyntaxError left to the caller.
InferredTypeNode_node_strict(self) ==
    LET r == parse_expression(normalized(self.inferred_type_str))
    IN [err |-> r.err, node |-> r.node]

\* InferredTypeNode.node
InferredTypeNode_node(self) ==
    LET r == parse_expression(normalized(self.inferred_type_str))
    IN IF r.err = "ParserSyntaxError"
       THEN [err |-> "none", node |-> Name("InferredTypeParserSyntaxError")]
       ELSE [err |-> "none", node |-> r.node]

\* inferred_type=InferredTypeNode(type_info) if type_info else None
inferred_type_of(ti) ==
    IF ti = NoType \/ ti = <<>> THEN NoInferredType ELSE InferredTypeNode(ti)

NoRead == [kind |-> "none"]

\* The type checker's result for one node of the parsed file.
InitTypes ==
    /\ type_info \in TypeStrs \cup {NoType}
    /\ empty_range \in BOOLEAN
    /\ inferred_type = NoInferredType
    /\ indexed = FALSE
    /\ tstage = "parsed"
    /\ tread = NoRead

\* get_src_info as far as the node's inferred type goes: the NodeInfo is
\* created with the string wrapped, unparsed, and its group goes to the
\* tree unless the range is empty.
BuildTyped ==
    /\ tstage = "parsed"
    /\ inferred_type' = inferred_type_of(type_info)
    /\ indexed' = ~empty_range
    /\ tstage' = "built"
    /\ UNCHANGED <<type_info, empty_range, tread, cacheVars, repoVars,
                   indexVars, viewVars, nameVars, parseVars, rootVars, textVars>>

\* A caller that found inferred_type set reads inferred_type.node.
ReadTypeNode ==
    /\ tstage = "built"
    /\ inferred_type # NoInferredType
    /\ LET r == InferredTypeNode_node(inferred_type) IN
        tread' = [kind |-> "node", err |-> r.err, node |-> r.node]
    /\ tstage' = "read"
    /\ UNCHANGED <<type_info, empty_range, inferred_type, indexed, cacheVars,
                   repoVars, indexVars, viewVars, nameVars, parseVars,
                   rootVars, textVars>>

(***************************************************************************)
(* Specifications                                                          *)
(***************************************************************************)
IdleRepo == InitRepo
IdleIndex ==
    /\ parse = NoParse
    /\ stage = "parsed"
    /\ infos = <<>>
    /\ tree = {}
    /\ q = NoQuery

IdleView == InitView
AllParse == broken = {} /\ parse_errors = {}
OneRoot == live = {} /\ caller = "r1"
IdleText == file_code = <<>> /\ _lines = <<<<>>>> /\ tq = NoTextQuery
IdleTypes ==
    /\ type_info = NoType
    /\ empty_range = FALSE
    /\ inferred_type = NoInferredType
    /\ indexed = FALSE
    /\ tstage = "parsed"
    /\ tread = NoRead

IdleNames ==
    /\ cands = [n \in Named |-> {}]
    /\ retained = {}
    /\ fqn = [n \in Named |-> NoFqn]
    /\ nstage = "parsed"
    /\ names = EmptyDict
    /\ nq = NoNameQuery

Init ==
    InitStore /\ mgr = FALSE /\ IdleRepo /\ IdleIndex /\ IdleView /\ IdleNames /\ AllParse /\ OneRoot /\ IdleText /\ IdleTypes
Next == NewManager \/ ReadDirty \/ ResolveCache \/ GetCacheForPath \/ WriteFile
Spec == Init /\ [][Next]_vars

\* RepoInfo.__init__ has constructed the manager over an empty store.
InitRepoSession ==
    InitStore /\ mgr = TRUE /\ InitRepo /\ IdleIndex /\ IdleView /\ IdleNames /\ AllParse /\ OneRoot /\ IdleText /\ IdleTypes
NextRepo ==
    \/ \E t \in Threads : Call(t)
    \/ \E t \in Threads : Build(t)
    \/ \E t \in Threads : Return(t)
    \/ WriteFile
SpecRepo == InitRepoSession /\ [][NextRepo]_vars

InitIndexOnly ==
    InitStore /\ mgr = FALSE /\ InitRepo /\ InitIndex /\ IdleView /\ IdleNames /\ AllParse /\ OneRoot /\ IdleText /\ IdleTypes
NextIndex ==
    GetSrcInfo \/ IterParents \/ MinimalNodeFromSet \/ NodesAt \/ QueryReturn
SpecIndex == InitIndexOnly /\ [][NextIndex]_vars

\* One caller at a time calls get_src_info, in a repository where any of
\* the files may hold text that is not valid Python.
InitGet ==
    /\ InitStore /\ mgr = TRUE /\ InitRepo /\ IdleIndex /\ IdleView /\ IdleNames
    /\ broken \in SUBSET Paths
    /\ parse_errors = {}
    /\ OneRoot /\ IdleText /\ IdleTypes
NextGet == Call(1) \/ Build(1) \/ Return(1)
SpecGet == InitGet /\ [][NextGet]_vars

\* One process, no manager yet; a RepoInfo is then made for each root.
InitRoots ==
    /\ InitStore /\ mgr = FALSE /\ IdleRepo /\ IdleIndex /\ IdleView /\ IdleNames
    /\ broken = {} /\ parse_errors = {}
    /\ OneRoot /\ IdleText /\ IdleTypes
NextRoots ==
    \/ \E root \in Roots : NewManagerOf(root)
    \/ \E root \in Roots : GetCacheForPathOf(root)
    \/ WriteFile
SpecRoots == InitRoots /\ [][NextRoots]_vars

\* CodeView.__init__ has constructed RepoInfo; no file is selected.
InitCodeView ==
    InitStore /\ mgr = TRUE /\ InitRepo /\ IdleIndex /\ InitView /\ IdleNames /\ AllParse /\ OneRoot /\ IdleText /\ IdleTypes

InitNamesOnly ==
    InitStore /\ mgr = FALSE /\ InitRepo /\ IdleIndex /\ IdleView /\ InitNames /\ AllParse /\ OneRoot /\ IdleText /\ IdleTypes
NextNames == BuildNames \/ OccurencesOfName
SpecNames == InitNamesOnly /\ [][NextNames]_vars
NextView ==
    \/ WatchActiveFile
    \/ \E w \in Tasks : TaskCall(w)
    \/ \E w \in Tasks : TaskConstruct(w)
    \/ \E w \in Tasks : SetCodeInfo(w)
    \/ OnClick
    \/ TriggerTypeDisplayUpdate
SpecView == InitCodeView /\ [][NextView]_vars

\* One SourceFileInfo and the calls of code_at on it.
InitTextOnly ==
    /\ InitStore /\ mgr = FALSE /\ InitRepo /\ IdleIndex /\ IdleView /\ IdleNames
    /\ AllParse /\ OneRoot
    /\ InitText
    /\ IdleTypes
NextText == CodeAt \/ CodeAtReturn
SpecText == InitTextOnly /\ [][NextText]_vars

\* One node of a parsed file, its NodeInfo and the reads of its type.
InitTypesOnly ==
    /\ InitStore /\ mgr = FALSE /\ InitRepo /\ IdleIndex /\ IdleView /\ IdleNames
    /\ AllParse /\ OneRoot
    /\ IdleText
    /\ InitTypes
NextTypes == BuildTyped \/ ReadTypeNode
SpecTypes == InitTypesOnly /\ [][NextTypes]_vars

\* RepoInfo.__init__ has constructed the manager; one caller names the
\* files in every form.
InitArgsOnly ==
    /\ InitStore /\ mgr = TRUE /\ InitArgs /\ IdleIndex /\ IdleView /\ IdleNames
    /\ AllParse /\ OneRoot /\ IdleText /\ IdleTypes
NextArgs == GetSrcInfoArg
SpecArgs == InitArgsOnly /\ [][NextArgs]_vars

(***************************************************************************)
(* Properties of the provider cache (Spec)                                 *)
(***************************************************************************)
\* C1: after a successful resolve, while no tracked file's bytes change,
\* a read of dirty (the one made by a new manager included) gives FALSE and
\* leaves the store as it is, and a resolve or get invokes no provider.
C1_NotStaleWhenUnchanged ==
    [][md5_files = <<files, epoch>> =>
        /\ op' \in {"init", "dirty"} => (dirty_seen' = FALSE /\ disk' = disk)
        /\ op' \in {"resolve", "get"} => calls' = {}]_vars

\* C2: after a change to the bytes of any tracked file, no get returns,
\* for any path and provider, an entry computed before the change.
C2_ChangeInvalidatesAll ==
    (op = "get" /\ err = "none") =>
        \A p \in ProviderSet : ret[p].epoch = epoch

\* C3: every entry a get returns was computed from tracked files whose
\* fingerprint is the fingerprint of the tracked files at the time of the
\* get, that is, from the bytes the files hold now.
C3_GetResolvesWhenStale ==
    (op = "get" /\ err = "none") =>
        \A p \in ProviderSet : ret[p].from = files

\* C6: when a provider's computation raises during resolve, the error
\* reaches the caller, that provider has no entry and the stored
\* fingerprint is left as it was; and the fingerprint is never present
\* while a provider has no entry.
C6_FailFast ==
    [][/\ op' \in {"resolve", "get"} =>
            /\ err' = "ProviderError" =>
                /\ failed' \in ProviderSet
                /\ ~disk'[failed'].present
                /\ disk'["md5"] = disk["md5"]
            /\ err' = "none" =>
                /\ failed' = "none"
                /\ \A p \in ProviderSet : disk'[p].present
       /\ disk'["md5"].present => \A p \in ProviderSet : disk'[p].present]_vars

\* A resolve in which the second provider raised after the first was
\* computed.
C6_Witness ==
    /\ op = "resolve"
    /\ err = "ProviderError"
    /\ failed = Providers[2]
    /\ Providers[1] \in calls
    /\ ~disk[failed].present

\* C7: a resolve that fails with a ProviderError leaves the store exactly
\* as it was before the attempt.
C7_FailedResolveLeavesStore ==
    [][(op' \in {"resolve", "get"} /\ err' = "ProviderError") => disk' = disk]_vars

\* C19: a get through the manager of one root returns entries resolved
\* for that root only, and does not fail on an entry resolved for the
\* tracked files of another root.
C19_KeyedByRoot ==
    (op = "get") =>
        /\ err # "KeyError"
        /\ err = "none" => \A p \in ProviderSet : ret[p].root = caller

(***************************************************************************)
(* Properties of get_src_info behind the lru_cache (SpecRepo)              *)
(***************************************************************************)

\* C4: a call answered from the memo returns an index built from the
\* bytes the file holds now; after a change the call rebuilds instead.
C4_MemoOnlyWhenUnchanged ==
    [][\A t \in Threads :
        (pc[t] = "idle" /\ pc'[t] = "done") =>
            tret'[t].parsed = files'[tret'[t].path]]_vars

\* C5: at most one construction for a (path, content) key executes at
\* any time.
C5_SingleFlight ==
    \A t1, t2 \in Threads :
        (t1 # t2 /\ pc[t1] = "building" /\ pc[t2] = "building") =>
            ~(treq[t1] = treq[t2] /\ tparsed[t1] = tparsed[t2])

(***************************************************************************)
(* Properties of get_src_info on files that do not parse (SpecGet)         *)
(***************************************************************************)
\* C18: get_src_info for a path whose text does not parse raises the
\* parse error and changes neither the lru_cache nor the provider store;
\* the lru_cache never holds an index for such a path; and a call for a
\* valid file whose provider data is resolved returns an index for that
\* file and stores it, whatever calls have failed before.
C18_ParseFailureIsolated ==
    [][/\ \A t \in Threads :
            (pc[t] = "idle" /\ pc'[t] # "idle" /\ treq'[t] \in broken) =>
                /\ pc'[t] = "done"
                /\ tret'[t] = ParserSyntaxError
                /\ memo' = memo
                /\ disk' = disk
       /\ \A p \in broken : ~memo'[p].present
       /\ \A t \in Threads :
            (/\ pc[t] = "building" /\ pc'[t] = "done"
             /\ \A p \in ProviderSet : disk'[p].present) =>
                /\ tret'[t].present
                /\ tret'[t].path = treq[t]
                /\ memo'[treq[t]] = tret'[t]]_vars

\* After a call for a.py has raised the parse error, a call for b.py has
\* built and returned b.py's index.
C18_Witness ==
    /\ "a.py" \in parse_errors
    /\ pc[1] = "done"
    /\ ~thit[1]
    /\ tret[1].present
    /\ tret[1].path = "b.py"
    /\ ~memo["a.py"].present

(***************************************************************************)
(* Properties of the NodeInfo graph (SpecIndex)                            *)
(***************************************************************************)
Built == stage \in {"built", "queried"}

\* C8: for every NodeInfo n of the index whose parent is a NodeInfo p,
\* p.start <= n.start and p.end >= n.end, one of the two strictly.
C8_ParentStrictlyContains ==
    Built =>
        \A n \in node_infos :
            infos[n].parent[1] = "info" =>
                LET p == infos[infos[n].parent[2]] IN
                /\ le(p.code_start, infos[n].code_start)
                /\ ge(p.code_end, infos[n].code_end)
                /\ \/ lt(p.code_start, infos[n].code_start)
                   \/ gt(p.code_end, infos[n].code_end)

\* C9: for all NodeInfo n, p created for the file, n is in p.children
\* if and only if n.parent is p.
C9_ParentChildrenInverse ==
    Built =>
        \A n \in DOMAIN infos, p \in DOMAIN infos :
            (n \in infos[p].children) <=> (infos[n].parent = Info(p))

\* A built graph with a linked child, and with a NodeInfo (one of a
\* discarded group) whose parent field still holds the raw syntax node.
C9_Witness ==
    /\ Built
    /\ \E n \in DOMAIN infos, p \in DOMAIN infos : n \in infos[p].children
    /\ \E m \in DOMAIN infos : infos[m].parent[1] = "cst"

\* C10: iter_parents on a NodeInfo of the index ends without an error at
\* a NodeInfo whose parent is None, yields NodeInfo only, and never
\* yields the NodeInfo it was started on.
C10_AncestorsEndAtRoot ==
    (stage = "queried" /\ q.kind = "iter_parents") =>
        LET out == q.out.yielded
            last == IF Len(out) = 0 THEN Info(q.node) ELSE out[Len(out)]
        IN /\ q.out.err = "none"
           /\ \A i \in 1..Len(out) : out[i][1] = "info" /\ out[i] # Info(q.node)
           /\ last[1] = "info" /\ infos[last[2]].parent = None

\* The NodeInfo ancestors of n along the parent links of the built graph.
AncestorsOf(n) ==
    LET ys == iter_parents(infos, n).yielded
    IN {ys[k][2] : k \in {i \in 1..Len(ys) : ys[i][1] = "info"}}

\* S is a chain of nested ancestors: of any two of its members one is an
\* ancestor of the other.
IsChain(S) ==
    \A a, b \in S : a = b \/ a \in AncestorsOf(b) \/ b \in AncestorsOf(a)

\* C11: minimal_node_from_set on a chain of nested ancestors returns the
\* deepest node of the chain whatever the iteration order, on a set of one
\* element that element, and on the empty set None; it raises nothing.
C11_MinimalOfChain ==
    (stage = "queried" /\ q.kind = "minimal_node_from_set" /\ IsChain(q.nodes)) =>
        /\ q.out.err = "none"
        /\ q.out.value =
              IF q.nodes = {} THEN None
              ELSE Info(CHOOSE d \in q.nodes :
                            \A a \in q.nodes \ {d} : a \in AncestorsOf(d))

\* The (line, column) total order: compare line, then column.
Before(a, b) == a.line < b.line \/ (a.line = b.line /\ a.column < b.column)

\* C12: for every group inserted into the tree with range (s, e), s < e,
\* a point query returns the group's nodes if and only if
\* s <= point < e in the (line, column) order; it returns the nodes of
\* every such group, not of the innermost only.
C12_PointQueryHalfOpen ==
    (stage = "queried" /\ q.kind = "nodes_at" /\ q.end = NonePos) =>
        /\ \A iv \in tree :
              /\ Before(iv.begin, iv.end)
              /\ (iv.data \subseteq q.out) <=>
                    (~Before(q.start, iv.begin) /\ Before(q.start, iv.end))
        /\ q.out = UNION {iv.data : iv \in
                       {i \in tree : ~Before(q.start, i.begin) /\ Before(q.start, i.end)}}

\* A point query at the upper end of one group that lies inside an
\* enclosing group: it returns the outer group's nodes only.
C12_Witness ==
    /\ stage = "queried" /\ q.kind = "nodes_at" /\ q.end = NonePos
    /\ \E iv, jv \in tree :
          /\ iv # jv
          /\ q.start = iv.end
          /\ jv.data \subseteq q.out
          /\ ~(iv.data \subseteq q.out)

\* A point of the file: a line of the file and a column of that line.
InFile(p) == p.line \in 1..LastLine /\ p.column \in 0..1

\* C17: a query on an index with no entries, and a point query at a point
\* outside the file (a line past the last one, a column that is negative
\* or past the end of the line), return the empty set.
C17_QueryMissEmpty ==
    (stage = "queried" /\ q.kind = "nodes_at") =>
        /\ tree = {} => q.out = {}
        /\ (q.end = NonePos /\ ~InFile(q.start)) => q.out = {}

(***************************************************************************)
(* Properties of CodeView and its background construction (SpecView)       *)
(***************************************************************************)
\* A SourceFileInfo whose graph has every block of the construction done.
Complete(x) == x.collected /\ x.linked /\ x.inserted

UnderConstruction ==
    \E w \in Tasks : wpc[w] # "free" /\ wpath[w] = active

\* C14: a mouse event handled while the index of the selected file is
\* under construction is ignored or waits; it does not raise and is not
\* answered from the index of another file.
C14_QueryWhileBuilding ==
    (ui.event # "none" /\ UnderConstruction) =>
        /\ ui.outcome # "AttributeError"
        /\ ui.outcome = "answered" => ui.from = active

(***************************************************************************)
(* Properties of the name index (SpecNames)                                *)
(***************************************************************************)
\* C15: for every qualified name qn, every NodeInfo returned by
\* occurences_of_name(qn) is a NodeInfo of the index with fqn == qn, and
\* every NodeInfo of the index whose fqn is qn is returned.
C15_OccurencesSoundComplete ==
    (nq.kind = "occurences_of_name" /\ nq.name \in QNames \cup {UnusedQName}) =>
        /\ nq.err = "none"
        /\ \A a \in nq.out : a \in retained /\ fqn[a] = nq.name
        /\ \A a \in retained : fqn[a] = nq.name => a \in nq.out

\* A call with a qualified name that returned a NodeInfo and left out a
\* NodeInfo of the index that carries another qualified name.
C15_Witness ==
    /\ nq.kind = "occurences_of_name"
    /\ nq.name \in QNames
    /\ nq.out # {}
    /\ \E m \in retained \ nq.out : fqn[m] \in QNames

\* The NodeInfo of the index that carry the name of a call: those with
\* that fqn, or for a str those whose fqn has that name.
Carriers(name) ==
    {a \in retained :
        IF "str" \in DOMAIN name
        THEN fqn[a] # NoFqn /\ fqn[a].name = name.str
        ELSE fqn[a] = name}

\* C16: occurences_of_name called with a str or a qualified name that no
\* NodeInfo of the index carries returns the empty set and raises
\* nothing.
C16_NameMissEmpty ==
    (/\ nq.kind = "occurences_of_name"
     /\ "node" \notin DOMAIN nq.name
     /\ Carriers(nq.name) = {}) =>
        nq.err = "none" /\ nq.out = {}

\* C20: a build of the same file from the same bytes and the same
\* provider results gives every NodeInfo of the index the fqn the build
\* before gave it.
C20_BuildDeterministic ==
    [][(nstage = "built" /\ nq'.kind = "none") =>
            \A n \in retained : fqn'[n] = fqn[n]]_vars

(***************************************************************************)
(* Properties of code_at (SpecText)                                        *)
(***************************************************************************)
\* The lines a .. b of the file, each whole, joined by line breaks.
WholeLines(a, b) == join([i \in 1..(b - a + 1) |-> _lines[a + i]])

\* C21: code_at(start, end) with both positions on one line returns the
\* characters of that line from column start.column up to, not including,
\* column end.column; with start.line < end.line, both lines of the file,
\* it returns the whole lines start.line .. end.line joined by line breaks,
\* the end line included and not cut at end.column.
C21_CodeAt ==
    (tq.kind = "code_at" /\ tq.err = "none") =>
        /\ tq.start.line = tq.end.line =>
              tq.out = slice(_lines[tq.start.line + 1],
                             tq.start.column, tq.end.column)
        /\ (tq.start.line < tq.end.line /\ tq.end.line < Len(_lines)) =>
              tq.out = WholeLines(tq.start.line, tq.end.line)

(***************************************************************************)
(* Properties of the interval index (SpecIndex)                            *)
(***************************************************************************)
\* The intervals of the tree that hold node n.
EntriesOf(n) == {iv \in tree : n \in iv.data}

\* C22: in a built index no interval has begin = end; every NodeInfo whose
\* range has start < end is in exactly one interval, the one keyed by its
\* own (code_start, code_end); and the NodeInfo that share one range are
\* all in the data of the same interval.
C22_IndexGroupsByRange ==
    Built =>
        /\ \A iv \in tree : ~eq(iv.begin, iv.end)
        /\ \A n \in 1..parse.n :
              lt(parse.range[n][1], parse.range[n][2]) =>
                  /\ Cardinality(EntriesOf(n)) = 1
                  /\ \A iv \in EntriesOf(n) :
                        /\ iv.begin = infos[n].code_start
                        /\ iv.end = infos[n].code_end
                        /\ iv.begin = parse.range[n][1]
                        /\ iv.end = parse.range[n][2]
        /\ \A n, m \in 1..parse.n :
              (parse.range[n] = parse.range[m]
                    /\ lt(parse.range[n][1], parse.range[n][2])) =>
                  EntriesOf(n) = EntriesOf(m)

\* A built index of a file in which two nodes share a range with
\* start < end and a third node has an empty range.
C22_Witness ==
    /\ Built
    /\ \E n, m, z \in 1..parse.n :
        /\ n # m
        /\ parse.range[n] = parse.range[m]
        /\ lt(parse.range[n][1], parse.range[n][2])
        /\ eq(parse.range[z][1], parse.range[z][2])
        /\ \E iv \in tree : {n, m} \subseteq iv.data

\* C23: after the second pass the parent of every NodeInfo of the index
\* is None or a NodeInfo of the index (the nearest ancestor that was kept),
\* and the children of a NodeInfo of the index are NodeInfo of the index,
\* in whatever order the groups and their members were visited.
C23_ParentsAreRetained ==
    Built =>
        \A n \in node_infos :
            /\ \/ infos[n].parent = None
               \/ /\ infos[n].parent[1] = "info"
                  /\ infos[n].parent[2] \in node_infos
            /\ infos[n].children \subseteq node_infos

\* C27: when minimal_node_from_set returns from a call on a non-empty set
\* of NodeInfo, a chain or not, iterated in any order, the NodeInfo it
\* returns is a member of the set and is not a proper ancestor of any
\* other member.
C27_MinimalIsMemberNotAncestor ==
    (stage = "queried" /\ q.kind = "minimal_node_from_set"
        /\ q.nodes # {} /\ q.out.err = "none") =>
        /\ q.out.value[1] = "info"
        /\ q.out.value[2] \in q.nodes
        /\ \A m \in q.nodes \ {q.out.value[2]} :
              q.out.value[2] \notin AncestorsOf(m)

\* A call that returned on a set that is not a chain and holds a node
\* together with one of its ancestors.
C27_Witness ==
    /\ stage = "queried"
    /\ q.kind = "minimal_node_from_set"
    /\ q.out.err = "none"
    /\ ~IsChain(q.nodes)
    /\ \E a, b \in q.nodes : a \in AncestorsOf(b)

(***************************************************************************)
(* Properties of resolve_cache (Spec)                                      *)
(***************************************************************************)
\* C24: a resolve invokes the computation only of providers that have no
\* entry, and after a successful resolve every provider has an entry and
\* the stored fingerprint is the fingerprint of the tracked files, that
\* is, the value calculate_md5 gives for them; a resolve that directly
\* follows a successful one, with no file changed, invokes no provider
\* and leaves every provider's entry as it is.
C24_ResolveRecordsFingerprint ==
    [][/\ op' = "resolve" =>
            /\ calls' \subseteq {p \in ProviderSet : ~disk[p].present}
            /\ err' = "none" =>
                /\ \A p \in ProviderSet : disk'[p].present
                /\ \A fp \in calculate_md5 : disk'["md5"] = Md5(fp)
       /\ (op = "resolve" /\ err = "none" /\ op' = "resolve") =>
            /\ calls' = {}
            /\ \A p \in ProviderSet : disk'[p] = disk[p]]_vars

(***************************************************************************)
(* Properties of inferred types (SpecTypes)                                *)
(***************************************************************************)
\* C25: a type string that does not parse does not stop the construction:
\* the NodeInfo is created with the string and is in the tree like any
\* other node with a non-empty range, and reading inferred_type.node
\* raises nothing and gives Name("InferredTypeParserSyntaxError"); a node
\* with no inferred type, or the empty string, has inferred_type None.
C25_BadTypeDegrades ==
    /\ tstage \in {"built", "read"} =>
        /\ indexed = ~empty_range
        /\ (type_info = NoType \/ type_info = <<>>) <=>
              inferred_type = NoInferredType
        /\ inferred_type # NoInferredType =>
              inferred_type.inferred_type_str = type_info
    /\ tstage = "read" =>
        /\ tread.err = "none"
        /\ parse_expression(normalized(type_info)).err = "ParserSyntaxError" =>
              tread.node = Name("InferredTypeParserSyntaxError")
        /\ parse_expression(normalized(type_info)).err = "none" =>
              tread.node = [expr |-> normalized(type_info)]

\* The type of an indexed NodeInfo was read and its string did not parse.
C25_Witness ==
    /\ tstage = "read"
    /\ indexed
    /\ parse_expression(normalized(type_info)).err = "ParserSyntaxError"
    /\ tread.node = Name("InferredTypeParserSyntaxError")

(***************************************************************************)
(* Properties of the queries as a whole (SpecNames)                        *)
(***************************************************************************)
\* C26: a query on a built SourceFileInfo changes nothing of it; in
\* particular occurences_of_name, found or not, called with a str, a
\* qualified name or a NodeInfo, leaves the name index as it was, its set
\* of keys included.
C26_QueriesReadOnly ==
    [][(nstage = "built" /\ nq'.kind = "occurences_of_name") =>
            /\ names'.keys = names.keys
            /\ names' = names]_vars

(***************************************************************************)
(* Properties of CodeView across two selections (SpecView)                 *)
(***************************************************************************)
\* C28: when no background task is left running and get_src_info has
\* returned an index for the file that was selected last, _code_info is
\* the index of that file, whichever task finished last, and a mouse
\* event is answered from that index.
C28_LastSelectionInstalled ==
    (/\ \A w \in Tasks : wpc[w] = "free"
     /\ active # "none"
     /\ lru_lookup(memo, active).present) =>
        /\ code_info # NoInfo
        /\ code_info.path = active
        /\ (ui # NoEvent /\ ui.outcome = "answered") => ui.from = active

(***************************************************************************)
(* Properties of the lru_cache key (SpecArgs)                              *)
(***************************************************************************)
\* C29: the cache of get_src_info is keyed by the normalized path: calls
\* that name one file as a str or a Path, absolute or relative to the
\* root, share one cache entry, so with the file unchanged at most one
\* SourceFileInfo is built for it and every form returns that one.
C29_OneIndexPerFile ==
    /\ \A a, b \in Args :
          (normalize_path(a) = normalize_path(b)
                /\ memo[a].present /\ memo[b].present) =>
              memo[a].id = memo[b].id
    /\ \A a \in Args :
          (tret[1].present /\ memo[a].present
                /\ normalize_path(a) = normalize_path(treq[1])) =>
              tret[1].id = memo[a].id

====
